---- MODULE Spec2Model ----
(***************************************************************************)
(* Model of the slider / light-intensity logic of src/main.rs.             *)
(*                                                                         *)
(* Numbers.  The program computes in f32.  The model is exact rational     *)
(* arithmetic over integers:                                               *)
(*   - window sizes and cursor coordinates are whole pixels;               *)
(*   - horizontal track coordinates are kept in HALF pixels, because       *)
(*     track_left = w * 0.5 - SLIDER_WIDTH_PX * 0.5 is a half-integer for  *)
(*     an odd window width;                                                *)
(*   - LightControl.value is the numerator of a fraction over VDEN         *)
(*     (= track_right - track_left in half pixels), so value = VDEN is     *)
(*     1.0 and value = VDEN \div 4 is 0.25;                                *)
(*   - scales, light intensities and the knob offset are numerators over   *)
(*     VDEN as well.                                                       *)
(* f32 rounding is not modelled.                                           *)
(***************************************************************************)
EXTENDS Integers, Sequences, FiniteSets

\* ------------ Tunables (src/main.rs 18..35) --------------------------------
GRID == 2
BASE_CENTER_INTENSITY == 4000
BASE_OTHER_INTENSITY == 2000
SLIDER_WIDTH_PX == 340
SLIDER_HEIGHT_PX == 14
SLIDER_KNOB_SIZE_PX == 18
SLIDER_BOTTOM_MARGIN_PX == 14
SLIDER_GRAB_EXTRA_Y_PX == 28

\* ------------ Bounds of the model ------------------------------------------
\* grid sizes N drawn at construction: 1..MaxGrid
MaxGrid == 3
\* button events (press / release) the host delivers within one frame
MaxEvents == 2
\* the values written by an outside source lie on a grid of 1/ValueSteps
ValueSteps == 4

\* denominator of value, scales, intensities and knob offset
VDEN == 2 * SLIDER_WIDTH_PX

\* the absent Option / failed lookup
NONE == <<>>

\* primary windows <<width, height>> the host can report
Windows == {<<800, 600>>, <<801, 600>>}
\* cursor x: left of the track, on its left edge for w = 800 (just left of it
\* for w = 801), inside, right of the track
CursorXs == {100, 230, 400, 700}
\* cursor y: just above the hit rectangle, on its top edge, just below it
CursorYs == {543, 544, 587}
Cursors == CursorXs \X CursorYs

\* smoothed FPS samples in hundredths of a frame per second
FpsSamples == {5994, 14401}

VARIABLES
    grid,         \* N of the N x N light grid (GRID in the source)
    ctl,          \* LightControl resource
    drag,         \* SliderDrag resource
    lights,       \* (ix, iz) -> CeilingLight + PointLight.intensity
    knob_left,    \* Node.left of the SliderKnob, numerator over VDEN
    label,        \* text of the FpsText span: NONE (empty) or <<tenths>>
    window,       \* windows.single(): NONE or <<w, h>>
    cursor,       \* window.cursor_position(): NONE or <<x, y>>
    buttons,      \* ButtonInput<MouseButton> for MouseButton::Left
    diag,         \* fps.smoothed(): NONE or <<hundredths>>
    ctl_changed,  \* per system: LightControl changed since the system last ran
    pc,           \* 0: between frames, 1..3: position in the chain, 4: chain done
    fps_done,     \* update_fps_ui has run in this frame
    press_inside  \* history: the last press happened inside the hit rectangle

vars == <<grid, ctl, drag, lights, knob_left, label, window, cursor, buttons,
          diag, ctl_changed, pc, fps_done, press_inside>>

\* f32::clamp
clamp(x, lo, hi) == IF x < lo THEN lo ELSE IF x > hi THEN hi ELSE x

\* current_scales with the interpolation running from max_scale down
current_scales_inverted(c) ==
    LET s == c.max_scale * VDEN
             - (c.max_scale - c.min_scale) * clamp(c.value, 0, VDEN)
    IN  <<s, s>>

\* LightControl::current_scales, both components numerators over VDEN
current_scales(c) ==
    LET s == c.min_scale * VDEN
             + (c.max_scale - c.min_scale) * clamp(c.value, 0, VDEN)
    IN  <<s, s>>

\* is_center comparing against the first cell instead of n / 2
is_center_first_cell(ix, iz, n) == (ix = 0) /\ (iz = 0)

\* is_center of setup_camera_and_scene for an n x n grid
is_center(ix, iz, n) == (ix = n \div 2) /\ (iz = n \div 2)

\* the grid lights spawned by setup_camera_and_scene
setup_lights(n, c) ==
    LET scale      == current_scales(c)[1]
        cur_center == BASE_CENTER_INTENSITY * scale
        cur_other  == BASE_OTHER_INTENSITY * scale
    IN  [cell \in (0 .. n - 1) \X (0 .. n - 1) |->
            [center    |-> is_center(cell[1], cell[2], n),
             intensity |-> IF is_center(cell[1], cell[2], n)
                           THEN cur_center ELSE cur_other]]

\* slider_input: track edges in half pixels
track_left2(w) == w - SLIDER_WIDTH_PX
track_right2(w) == w + SLIDER_WIDTH_PX
track_bottom_y(h) == h - SLIDER_BOTTOM_MARGIN_PX
track_top_y(h) ==
    h - (SLIDER_BOTTOM_MARGIN_PX + SLIDER_HEIGHT_PX + SLIDER_GRAB_EXTRA_Y_PX)

\* slider_input: inside, for a present window and cursor
inside(win, cur) ==
    LET inside_x == 2 * cur[1] >= track_left2(win[1])
                    /\ 2 * cur[1] <= track_right2(win[1])
        inside_y == cur[2] >= track_top_y(win[2])
                    /\ cur[2] <= track_bottom_y(win[2])
    IN  inside_x /\ inside_y

\* v without the clamp
slider_value_unclamped(win, cur) ==
    ((2 * cur[1] - track_left2(win[1])) * VDEN)
        \div (track_right2(win[1]) - track_left2(win[1]))

\* slider_input: v, numerator over VDEN = track_right2 - track_left2
slider_value(win, cur) ==
    clamp(((2 * cur[1] - track_left2(win[1])) * VDEN)
              \div (track_right2(win[1]) - track_left2(win[1])), 0, VDEN)

\* the no-cursor branch clearing drag.active whatever the button does
no_cursor_active_always_cleared(b, active) == FALSE

\* slider_input: drag.active when the cursor has no position
no_cursor_active(b, active) == IF ~b.pressed THEN FALSE ELSE active

\* slider_input: drag.active when the cursor has a position
cursor_active(b, active, ins) ==
    IF b.just_pressed THEN ins
    ELSE IF b.just_released THEN FALSE
    ELSE active

\* the chain with the scene applier ahead of slider_input
ChainOrderApplierFirst ==
    <<"apply_intensity_to_scene", "slider_input", "slider_visual">>

\* the Update chain of main
ChainOrder == <<"slider_input", "apply_intensity_to_scene", "slider_visual">>

RunsNow(system) == pc \in 1 .. 3 /\ ChainOrder[pc] = system

\* ButtonInput::press / ButtonInput::release / ButtonInput::clear of the host
press(b) ==
    IF b.pressed THEN b
    ELSE [b EXCEPT !.pressed = TRUE, !.just_pressed = TRUE]
release(b) ==
    IF b.pressed THEN [b EXCEPT !.pressed = FALSE, !.just_released = TRUE]
    ELSE b
clear(b) == [b EXCEPT !.just_pressed = FALSE, !.just_released = FALSE]

RECURSIVE apply_events(_, _)
apply_events(b, evs) ==
    IF evs = <<>> THEN b
    ELSE apply_events(IF Head(evs) = "press" THEN press(b) ELSE release(b),
                      Tail(evs))

EventSeqs ==
    UNION {[1 .. n -> {"press", "release"}] : n \in 0 .. MaxEvents}

\* the state after the Startup schedule
Init ==
    /\ grid \in 1 .. MaxGrid
    /\ ctl = [value |-> VDEN \div 4, min_scale |-> 0, max_scale |-> 14]
    /\ drag = [active |-> FALSE]
    /\ lights = setup_lights(grid, ctl)
    /\ knob_left = 0
    /\ label = NONE
    /\ window = NONE
    /\ cursor = NONE
    /\ buttons = [pressed |-> FALSE, just_pressed |-> FALSE,
                  just_released |-> FALSE]
    /\ diag = NONE
    /\ ctl_changed = [apply_intensity_to_scene |-> TRUE,
                      slider_visual |-> TRUE]
    /\ pc = 0
    /\ fps_done = FALSE
    /\ press_inside = FALSE

\* the host's work before the Update schedule of a frame: the window and
\* its cursor, the button events of the frame, the FPS diagnostic
PreUpdate ==
    /\ pc = 0
    /\ \E win \in Windows \cup {NONE}, cur \in Cursors \cup {NONE},
          evs \in EventSeqs, d \in {NONE} \cup {<<s>> : s \in FpsSamples} :
        /\ (win = NONE => cur = NONE)
        /\ window' = win
        /\ cursor' = cur
        /\ buttons' = apply_events(clear(buttons), evs)
        /\ diag' = d
        /\ press_inside' =
             IF buttons'.just_pressed
             THEN (cur # NONE /\ inside(win, cur))
             ELSE press_inside
    /\ pc' = 1
    /\ fps_done' = FALSE
    /\ UNCHANGED <<grid, ctl, drag, lights, knob_left, label, ctl_changed>>

\* slider_input
SliderInput ==
    /\ RunsNow("slider_input")
    /\ pc' = pc + 1
    /\ IF window = NONE
       THEN UNCHANGED <<ctl, drag, ctl_changed>>
       ELSE IF cursor = NONE
       THEN /\ drag' = [drag EXCEPT
                           !.active = no_cursor_active(buttons, drag.active)]
            /\ UNCHANGED <<ctl, ctl_changed>>
       ELSE /\ drag' = [drag EXCEPT
                           !.active = cursor_active(buttons, drag.active,
                                                    inside(window, cursor))]
            /\ IF drag'.active
               THEN /\ ctl' = [ctl EXCEPT
                                  !.value = slider_value(window, cursor)]
                    /\ ctl_changed' = [apply_intensity_to_scene |-> TRUE,
                                       slider_visual |-> TRUE]
               ELSE UNCHANGED <<ctl, ctl_changed>>
    /\ UNCHANGED <<grid, lights, knob_left, label, window, cursor, buttons,
                   diag, fps_done, press_inside>>

\* apply_intensity_to_scene
ApplyIntensityToScene ==
    /\ RunsNow("apply_intensity_to_scene")
    /\ pc' = pc + 1
    /\ ctl_changed' = [ctl_changed EXCEPT !.apply_intensity_to_scene = FALSE]
    /\ IF ~ctl_changed.apply_intensity_to_scene
       THEN UNCHANGED lights
       ELSE LET scales == current_scales(ctl)
            IN  lights' =
                  [cell \in DOMAIN lights |->
                     IF lights[cell].center
                     THEN [lights[cell] EXCEPT
                             !.intensity = BASE_CENTER_INTENSITY * scales[1]]
                     ELSE [lights[cell] EXCEPT
                             !.intensity = BASE_OTHER_INTENSITY * scales[2]]]
    /\ UNCHANGED <<grid, ctl, drag, knob_left, label, window, cursor, buttons,
                   diag, fps_done, press_inside>>

\* slider_visual
SliderVisual ==
    /\ RunsNow("slider_visual")
    /\ pc' = pc + 1
    /\ ctl_changed' = [ctl_changed EXCEPT !.slider_visual = FALSE]
    /\ IF ~ctl_changed.slider_visual
       THEN UNCHANGED knob_left
       ELSE knob_left' = (SLIDER_WIDTH_PX - SLIDER_KNOB_SIZE_PX) * ctl.value
    /\ UNCHANGED <<grid, ctl, drag, lights, label, window, cursor, buttons,
                   diag, fps_done, press_inside>>

\* format!("{value:.1}") of a sample in hundredths: the text in tenths.
\* The samples are no ties, so the nearest tenth is unique.
format_1(hundredths) == (hundredths + 5) \div 10

\* update_fps_ui: not ordered against the chain, once per frame
UpdateFpsUi ==
    /\ pc \in 1 .. 4
    /\ ~fps_done
    /\ fps_done' = TRUE
    /\ IF diag # NONE
       THEN label' = <<format_1(diag[1])>>
       ELSE UNCHANGED label
    /\ UNCHANGED <<grid, ctl, drag, lights, knob_left, window, cursor,
                   buttons, diag, ctl_changed, pc, press_inside>>

\* the Update schedule of the frame is complete; what the systems read from
\* the host in this frame is dropped, the next frame reads anew
EndFrame ==
    /\ pc = 4
    /\ fps_done
    /\ pc' = 0
    /\ window' = NONE
    /\ cursor' = NONE
    /\ diag' = NONE
    /\ UNCHANGED <<grid, ctl, drag, lights, knob_left, label, buttons,
                   ctl_changed, fps_done, press_inside>>

Next ==
    \/ PreUpdate
    \/ SliderInput
    \/ ApplyIntensityToScene
    \/ SliderVisual
    \/ UpdateFpsUi
    \/ EndFrame

Spec == Init /\ [][Next]_vars

\* ------------ A source outside slider_input writing LightControl.value -----
\* the values such a source supplies: the grid k / ValueSteps over [0, 1]
\* and the two values -0.5 and 1.7
SuppliedValues ==
    {(k * VDEN) \div ValueSteps : k \in 0 .. ValueSteps}
        \cup {-(VDEN \div 2), (17 * VDEN) \div 10}

\* a write of LightControl.value through ResMut<LightControl>, between frames
SupplyValue ==
    /\ pc = 0
    /\ \E v \in SuppliedValues : ctl' = [ctl EXCEPT !.value = v]
    /\ ctl_changed' = [apply_intensity_to_scene |-> TRUE,
                       slider_visual |-> TRUE]
    /\ UNCHANGED <<grid, drag, lights, knob_left, label, window, cursor,
                   buttons, diag, pc, fps_done, press_inside>>

InitSupplied == Init /\ grid = GRID

NextSupplied == Next \/ SupplyValue

SpecSupplied == InitSupplied /\ [][NextSupplied]_vars

\* ------------ Properties ---------------------------------------------------
\* the chain of the frame has run to its end
FrameDone == pc = 4

\* the step taken is slider_input
SliderInputStep == RunsNow("slider_input") /\ pc' = pc + 1

\* the step taken is update_fps_ui
UpdateFpsUiStep == ~fps_done /\ fps_done'

\* the cursor has a position inside the hit rectangle
CursorInside == window # NONE /\ cursor # NONE /\ inside(window, cursor)

\* the intensity a light tagged c shows for the scale s
IntensityFor(c, s) ==
    IF c THEN BASE_CENTER_INTENSITY * s ELSE BASE_OTHER_INTENSITY * s

\* C1: after slider_input has run in a frame, SliderDrag.active is true only
\* if the left button is held and the press that started the hold happened
\* with the cursor inside the hit rectangle.
C1_ActiveOnlyWhileHeldFromInside ==
    FrameDone => (drag.active => (buttons.pressed /\ press_inside))

\* C2: LightControl.value lies in [0, 1] in every reachable state.
C2_ValueInUnitInterval == ctl.value >= 0 /\ ctl.value <= VDEN

\* C2 witness: a sticky drag right of the track, where the clamp cut the
\* value down to 1.
C2_Witness ==
    /\ FrameDone /\ drag.active /\ window # NONE /\ cursor # NONE
    /\ 2 * cursor[1] > track_right2(window[1])
    /\ ctl.value = VDEN

\* C3: at the end of every frame each light shows its base intensity times
\* the multiplier of the current value and the knob offset is
\* (SLIDER_WIDTH_PX - SLIDER_KNOB_SIZE_PX) times the current value.
C3_FrameEndsInSync ==
    FrameDone =>
        /\ \A cell \in DOMAIN lights :
              lights[cell].intensity
                  = IntensityFor(lights[cell].center, current_scales(ctl)[1])
        /\ knob_left = (SLIDER_WIDTH_PX - SLIDER_KNOB_SIZE_PX) * ctl.value

\* C3 witness: the end of a frame in which slider_input wrote a value
\* different from the initial one.
C3_Witness ==
    /\ FrameDone /\ drag.active /\ CursorInside
    /\ ctl.value = VDEN \div 2
    /\ knob_left = (SLIDER_WIDTH_PX - SLIDER_KNOB_SIZE_PX) * (VDEN \div 2)

\* C4: (a) a frame that starts with active set, the button still held from
\* before and a cursor position writes value = clamp((cursor.x - track_left)
\* / track_width, 0, 1) and keeps active, inside the rectangle or not;
\* (b) active is cleared only by a release of the button or with the button
\* up while the cursor has no position.
C4_StickyDrag ==
    [][SliderInputStep =>
          /\ (drag.active /\ buttons.pressed /\ ~buttons.just_pressed
                 /\ cursor # NONE)
               => /\ drag'.active
                  /\ ctl'.value
                       = clamp(2 * cursor[1] - track_left2(window[1]), 0, VDEN)
          /\ (drag.active /\ ~drag'.active)
               => \/ buttons.just_released
                  \/ (cursor = NONE /\ ~buttons.pressed)]_vars

\* C5: (a) a frame in which the left button was released ends slider_input
\* with active = false; (b) while active is false the value changes in no
\* step other than a slider_input with a press inside the hit rectangle.
C5_ReleaseClearsAndFreezes ==
    /\ [][(SliderInputStep /\ buttons.just_released) => ~drag'.active]_vars
    /\ [][(~drag.active
             /\ ~(SliderInputStep /\ buttons.just_pressed /\ CursorInside))
            => ctl'.value = ctl.value]_vars

\* C6: for a value v in [0, 1], min_scale = 0 and max_scale = 14,
\* current_scales is (14 v, 14 v), and at the end of the frame the center
\* light shows 4000 * 14 v and every other light 2000 * 14 v.
C6_MultiplierIs14v ==
    (ctl.min_scale = 0 /\ ctl.max_scale = 14
        /\ ctl.value >= 0 /\ ctl.value <= VDEN)
    => /\ current_scales(ctl) = <<14 * ctl.value, 14 * ctl.value>>
       /\ FrameDone =>
            \A cell \in DOMAIN lights :
               lights[cell].intensity
                  = IF lights[cell].center
                    THEN 4000 * 14 * ctl.value
                    ELSE 2000 * 14 * ctl.value

\* C6 witness: the end of a frame with the value 1 and no drag going on.
C6_Witness ==
    /\ FrameDone /\ ~drag.active
    /\ ctl.value = VDEN
    /\ lights[<<GRID \div 2, GRID \div 2>>].intensity = 4000 * 14 * ctl.value

\* C7: whatever value is supplied, at the end of the frame the lights and the
\* knob show clamp(value, 0, 1).
C7_ConsumersClamp ==
    FrameDone =>
        LET used == clamp(ctl.value, 0, VDEN)
        IN  /\ \A cell \in DOMAIN lights :
                  lights[cell].intensity
                      = IntensityFor(lights[cell].center, 14 * used)
            /\ knob_left = (SLIDER_WIDTH_PX - SLIDER_KNOB_SIZE_PX) * used

\* C8: an N x N grid has N * N lights, exactly one of them tagged center,
\* the one at (N / 2, N / 2); for N = GRID = 2 it is (1, 1) and not (0, 0);
\* the tags are the same in every state.
C8_OneCenterAtHalfN ==
    /\ Cardinality(DOMAIN lights) = grid * grid
    /\ {cell \in DOMAIN lights : lights[cell].center}
           = {<<grid \div 2, grid \div 2>>}
    /\ grid = GRID => (lights[<<1, 1>>].center /\ ~lights[<<0, 0>>].center)

\* C8 witness: the default grid at the end of a frame that rewrote the
\* lights.
C8_Witness ==
    /\ grid = GRID /\ FrameDone /\ drag.active /\ ctl.value = VDEN
    /\ lights[<<1, 1>>].center
    /\ lights[<<1, 1>>].intensity # lights[<<0, 0>>].intensity

\* C9: slider_input changes neither value nor active without a window;
\* without a cursor position it leaves value alone and keeps active if the
\* button is held, clears it if not; update_fps_ui leaves the label alone
\* without a smoothed sample.
C9_AbsentReadsSkip ==
    [][/\ (SliderInputStep /\ window = NONE)
            => (ctl' = ctl /\ drag' = drag)
       /\ (SliderInputStep /\ window # NONE /\ cursor = NONE)
            => /\ ctl' = ctl
               /\ drag'.active = (buttons.pressed /\ drag.active)
       /\ (UpdateFpsUiStep /\ diag = NONE) => label' = label]_vars

\* C9 witness: the end of a frame without a cursor position and without an
\* FPS sample, during a drag, with a label written earlier.
C9_Witness ==
    /\ FrameDone /\ fps_done
    /\ window # NONE /\ cursor = NONE /\ buttons.pressed /\ drag.active
    /\ diag = NONE /\ label # NONE

\* C10: a slider_input that runs with the cursor not inside the hit
\* rectangle and the left button not pressed leaves LightControl as it is
\* and does not mark it changed.
C10_IdleFrameChangesNothing ==
    [][(SliderInputStep /\ ~CursorInside /\ ~buttons.pressed)
          => (ctl' = ctl /\ ctl_changed' = ctl_changed)]_vars
====
